---- MODULE Spec2Model ----
(***************************************************************************)
(* A model of the `pre` contract-annotation processor: the precondition    *)
(* encoder (const_generics_impl.rs), the definition rewriter               *)
(* (pre_attr.rs), the call rewriter (call_handling.rs), the list-style     *)
(* call visitor (assert_pre.rs), the mirror generator (pre_defs_for.rs)    *)
(* and the resolution of the name of the main crate (helpers.rs).          *)
(*                                                                         *)
(* Spec follows the rewriting of one syntax node at a time, in a build     *)
(* that imports the main crate and after its name has been cached.         *)
(* SpecCrateName follows the reads of that name over one run, from the     *)
(* uninitialized cache, in every build.                                    *)
(*                                                                         *)
(* Strings (LitStr values, identifiers) are sequences of character codes,  *)
(* so that ordering and case conversion are computed as the code computes  *)
(* them.  Option<T> is a sequence of length 0 (None) or 1 (Some).          *)
(***************************************************************************)
EXTENDS Integers, Sequences, FiniteSets, TLC

VARIABLES
    crate_name,      \* the name under which the main crate is imported
    op,              \* the handler that produced the current state
    item_in,         \* the function the definition rewriter was given
    first_attr,      \* the attribute that started the definition rewriter (Option)
    item_out,        \* the function it emitted
    expr_in,         \* the call expression a call rewriter was given
    expr_out,        \* the expression left in its place
    diags,           \* the diagnostics emitted by the handler, in order
    lists,           \* <<declared, asserted>>: two precondition lists to encode
    markers,         \* <<declared, asserted>>: their rendered fingerprints
    mod_in,          \* the module of signatures the mirror generator was given
    mod_path,        \* the path named by its pre_defs_for attribute
    mod_out,         \* the module it emitted
    env,             \* the build: whether the manifest imports the main crate,
                     \* and CARGO_PKG_NAME
    cache,           \* the lazily initialized CRATE_NAME (Option)
    run,             \* "running", or how the macro invocation ended
    uses             \* history: every read of the name of the main crate

vars == <<crate_name, op, item_in, first_attr, item_out,
          expr_in, expr_out, diags, lists, markers, mod_in, mod_path, mod_out,
          env, cache, run, uses>>

\* the variables of the resolution of the name of the main crate
name_vars == <<env, cache, run, uses>>

\* the variables of the rewriting of one node
node_vars == <<op, item_in, first_attr, item_out, expr_in, expr_out, diags,
               lists, markers, mod_in, mod_path, mod_out>>

----------------------------------------------------------------------------
(* Bounds of the model *)

\* attributes on one syntax node
MaxAttrs == 3
\* parameters of a function, arguments of a call
MaxArgs == 2
\* preconditions in one list handed to the encoder
MaxPre == 3
\* nesting depth of the modules below a mirrored module
MaxDepth == 2
\* reads of the name of the main crate in one run
MaxUses == 4

----------------------------------------------------------------------------
(* Strings *)

Str_a    == <<97>>
Str_b    == <<98>>
Str_ab   == <<97, 98>>
Str_todo == <<116, 111, 100, 111>>
Str_TODO == <<84, 79, 68, 79>>
Str_ToDo == <<84, 111, 68, 111>>
Str_todo_q == <<116, 111, 100, 111, 63>>
Str_question == <<63>>
Str_empty == <<>>
Str_checked == <<99, 104, 101, 99, 107, 101, 100, 32, 97, 98, 111, 118, 101>>
Str_Why_Does_This_Hold ==
    <<87, 104, 121, 32, 68, 111, 101, 115, 32, 84, 104, 105, 115, 32, 72, 111,
      108, 100, 63>>

\* "why does this hold?"
HINT_REASON ==
    <<119, 104, 121, 32, 100, 111, 101, 115, 32, 116, 104, 105, 115, 32, 104,
      111, 108, 100, 63>>

\* "<specify the reason why you can assure this here>"
helpers_HINT_REASON ==
    <<60, 115, 112, 101, 99, 105, 102, 121, 32, 116, 104, 101, 32, 114, 101,
      97, 115, 111, 110, 32, 119, 104, 121, 32, 121, 111, 117, 32, 99, 97,
      110, 32, 97, 115, 115, 117, 114, 101, 32, 116, 104, 105, 115, 32, 104,
      101, 114, 101, 62>>

None == <<>>
Some(x) == <<x>>

\* str::cmp: bytewise lexicographic order; -1, 0 or 1
StrCmp(s, t) ==
    LET n == IF Len(s) < Len(t) THEN Len(s) ELSE Len(t)
        D == {i \in 1..n : s[i] # t[i]}
    IN  IF D = {}
        THEN IF Len(s) < Len(t) THEN -1 ELSE IF Len(s) > Len(t) THEN 1 ELSE 0
        ELSE LET i == CHOOSE i \in D : \A j \in D : i <= j
             IN  IF s[i] < t[i] THEN -1 ELSE 1

\* u8::make_ascii_lowercase on one byte
ascii_lowercase_byte(c) == IF c >= 65 /\ c <= 90 THEN c + 32 ELSE c

\* str::make_ascii_lowercase
make_ascii_lowercase(s) == [i \in 1..Len(s) |-> ascii_lowercase_byte(s[i])]

----------------------------------------------------------------------------
(* The precondition model *)

\* A precondition: its kind and payload; `reason` is the justification
\* stated with it, where the grammar carries one.
Precondition(kind, payload, reason) ==
    [kind |-> kind, payload |-> payload, reason |-> reason]

\* the variants of PreconditionKind, in declaration order
VariantTag(kind) == IF kind = "ValidPtr" THEN 0 ELSE 1

\* The total order of preconditions: variant tag first, then the payload
\* lexicographically.  The justification takes no part in it.
PreconditionCmp(p, q) ==
    IF VariantTag(p.kind) < VariantTag(q.kind) THEN -1
    ELSE IF VariantTag(p.kind) > VariantTag(q.kind) THEN 1
    ELSE StrCmp(p.payload, q.payload)

RECURSIVE SortedInsert(_, _)
SortedInsert(sorted, p) ==
    IF sorted = <<>> THEN <<p>>
    ELSE LET c == PreconditionCmp(p, Head(sorted))
         IN  IF c < 0 THEN <<p>> \o sorted
             ELSE IF c = 0 THEN sorted
             ELSE <<Head(sorted)>> \o SortedInsert(Tail(sorted), p)

\* PreconditionList::sorted_iter: the elements of the precondition set in
\* the total order.
RECURSIVE sorted_iter(_)
sorted_iter(list) ==
    IF list = <<>> THEN <<>>
    ELSE SortedInsert(sorted_iter(SubSeq(list, 1, Len(list) - 1)), list[Len(list)])

----------------------------------------------------------------------------
(* Tokens and the fingerprint encoder *)

Punct(p)  == [t |-> "punct", s |-> p, lit |-> <<>>]
Ident(i)  == [t |-> "ident", s |-> i, lit |-> <<>>]
LitStr(v) == [t |-> "lit", s |-> "", lit |-> v]

\* get_crate_name
get_crate_name == Ident(crate_name)

\* the marker type named for each kind of precondition
HolderName(kind) ==
    IF kind = "Custom" THEN "CustomConditionHolds" ELSE "ValidPtrConditionHolds"

\* to_tokens with the Custom arm pasted over the ValidPtr arm without
\* renaming the marker type
Precondition_to_tokens_one_holder(p) ==
    << Punct("::"), get_crate_name, Punct("::"), Ident("CustomConditionHolds"),
       Punct("::"), Punct("<"), LitStr(p.payload), Punct(">") >>

\* impl ToTokens for Precondition / PreconditionHolds:
\*   ::#pre::CustomConditionHolds::<#string>
\*   ::#pre::ValidPtrConditionHolds::<#ident_lit>
Precondition_to_tokens(p) ==
    << Punct("::"), get_crate_name, Punct("::"), Ident(HolderName(p.kind)),
       Punct("::"), Punct("<"), LitStr(p.payload), Punct(">") >>

RECURSIVE AppendAll(_, _)
AppendAll(seq, i) ==
    IF i > Len(seq) THEN <<>>
    ELSE Precondition_to_tokens(seq[i]) \o <<Punct(",")>> \o AppendAll(seq, i + 1)

\* the same loop over the list as it was declared, without sorting
PreconditionList_to_tokens_unsorted(list) == AppendAll(list, 1)

\* impl ToTokens for PreconditionList: `#precondition,` for each element of
\* sorted_iter()
PreconditionList_to_tokens(list) == AppendAll(sorted_iter(list), 1)

\* ::core::marker::PhantomData<(#preconditions)> as a type, and
\* ::core::marker::PhantomData::<(#preconditions)> as an expression
PhantomData(list) ==
    [path |-> "::core::marker::PhantomData",
     generic |-> << PreconditionList_to_tokens(list) >>]

\* a plain type or path expression without generic arguments
Plain(name) == [path |-> name, generic |-> <<>>]

----------------------------------------------------------------------------
(* Attributes and diagnostics *)

\* A source position: the range of attribute positions it covers.
Span(lo, hi) == [lo |-> lo, hi |-> hi]

\* Span::call_site()
call_site == Span(0, 0)

\* The token content of an attribute, by its grammatical form:
\*   "empty"         ()
\*   "precondition"  ("text") | (valid_ptr(ident)), with `, reason = "..."`
\*                   when list[1].reason is Some
\*   "def"           (def(target))
\*   "list"          a comma separated list of preconditions
\*   "malformed"     anything that matches no grammar
\*   "other"         the content of an attribute of another macro
Tokens(form, list, target) == [form |-> form, list |-> list, target |-> target]

\* An attribute: its path (a sequence of segments), its tokens, its span.
Attribute(path, tokens) == [path |-> path, tokens |-> tokens, span |-> call_site]

\* Path::is_ident
is_ident(attr, name) == Len(attr.path) = 1 /\ attr.path[1] = name

\* helpers::CRATE_NAME
CRATE_NAME == crate_name

\* helpers::is_attr
is_attr(attr_to_check, attr) ==
    IF is_ident(attr, attr_to_check) THEN TRUE
    ELSE IF Len(attr.path) = 2
         THEN attr.path[1] = CRATE_NAME /\ attr.path[2] = attr_to_check
         ELSE FALSE

Diagnostic(level, msg, span, help) ==
    [level |-> level, msg |-> msg, span |-> span, help |-> help]

\* emit_error!(err) for a syn::Error
ParseError(span) == Diagnostic("error", "malformed annotation", span, None)

\* Span::join: the span covering both; None where the toolchain does not
\* support joining
Span_join(a, b, nightly) ==
    IF nightly
    THEN Some(Span(IF a.lo < b.lo THEN a.lo ELSE b.lo, IF a.hi > b.hi THEN a.hi ELSE b.hi))
    ELSE None

Last(seq) == seq[Len(seq)]

unwrap_or(opt, default) == IF opt = None THEN default ELSE opt[1]

\* Vec::remove(i), i counted from 1
Vec_remove(v, i) == SubSeq(v, 1, i - 1) \o SubSeq(v, i + 1, Len(v))

\* The filter each caller passes to visit_matching_attrs_parsed.
AttrFilter(which, attr) ==
    IF which = "pre" THEN is_attr("pre", attr) ELSE is_ident(attr, "assert_pre")

\* impl Parse for Parenthesized<PreAttr>
parse_PreAttr(tokens) ==
    [ok |-> tokens.form \in {"empty", "precondition"}, parsed |-> tokens]

\* impl Parse for AssertPreAttr (call_handling.rs)
parse_AssertPreAttr(tokens) ==
    [ok |-> tokens.form \in {"def", "precondition"}, parsed |-> tokens]

\* syn::parse2::<ParsedAttr> for the attribute type each caller asks for
parse2(which, tokens) ==
    IF which = "pre" THEN parse_PreAttr(tokens) ELSE parse_AssertPreAttr(tokens)

\* The loop of visit_matching_attrs_parsed.  st.i counts from 0 as in the
\* code; st.events records, in order, each attribute handed to `visit`
\* (ok) or reported by emit_error! (not ok).
RECURSIVE visit_loop(_, _, _)
visit_loop(st, which, nightly) ==
    IF ~(st.i < Len(st.attributes)) THEN st
    ELSE IF AttrFilter(which, st.attributes[st.i + 1])
    THEN LET attr == st.attributes[st.i + 1]
             span == unwrap_or(Span_join(attr.span, attr.span, nightly), attr.span)
             all  == IF st.span_of_all = None THEN span
                     ELSE unwrap_or(Span_join(st.span_of_all[1], span, nightly), span)
             res  == parse2(which, attr.tokens)
         IN  visit_loop([attributes  |-> Vec_remove(st.attributes, st.i + 1),
                         i           |-> st.i,
                         span_of_all |-> Some(all),
                         events      |-> Append(st.events,
                                                [ok |-> res.ok, parsed |-> res.parsed,
                                                 span |-> span])],
                        which, nightly)
    ELSE visit_loop([st EXCEPT !.i = st.i + 1], which, nightly)

\* The loop with an index that advances past every attribute, removed or
\* not.
RECURSIVE visit_loop_advancing(_, _, _)
visit_loop_advancing(st, which, nightly) ==
    IF ~(st.i < Len(st.attributes)) THEN st
    ELSE IF AttrFilter(which, st.attributes[st.i + 1])
    THEN LET attr == st.attributes[st.i + 1]
             span == unwrap_or(Span_join(attr.span, attr.span, nightly), attr.span)
             all  == IF st.span_of_all = None THEN span
                     ELSE unwrap_or(Span_join(st.span_of_all[1], span, nightly), span)
             res  == parse2(which, attr.tokens)
         IN  visit_loop_advancing(
                [attributes  |-> Vec_remove(st.attributes, st.i + 1),
                 i           |-> st.i + 1,
                 span_of_all |-> Some(all),
                 events      |-> Append(st.events,
                                        [ok |-> res.ok, parsed |-> res.parsed,
                                         span |-> span])],
                which, nightly)
    ELSE visit_loop_advancing([st EXCEPT !.i = st.i + 1], which, nightly)

\* visit_matching_attrs_parsed over the advancing loop
visit_matching_attrs_parsed_advancing(attributes, which, nightly) ==
    visit_loop_advancing([attributes |-> attributes, i |-> 0, span_of_all |-> None,
                          events |-> <<>>], which, nightly)

\* helpers::visit_matching_attrs_parsed
visit_matching_attrs_parsed(attributes, which, nightly) ==
    visit_loop([attributes |-> attributes, i |-> 0, span_of_all |-> None,
                events |-> <<>>], which, nightly)

\* the diagnostics emit_error!(err) left for the attributes that did not parse
RECURSIVE ParseErrors(_)
ParseErrors(events) ==
    IF events = <<>> THEN <<>>
    ELSE (IF Head(events).ok THEN <<>> ELSE <<ParseError(Head(events).span)>>)
         \o ParseErrors(Tail(events))

----------------------------------------------------------------------------
(* The definition rewriter *)

\* a function parameter `pat: ty`
FnArg(pat, ty) == [pat |-> pat, ty |-> ty]

\* render_pre that inserts the marker parameter in front
render_pre_front(preconditions, function) ==
    [function EXCEPT !.inputs = <<FnArg("_", PhantomData(preconditions))>> \o @]

\* render_pre: push `_: ::core::marker::PhantomData<(#preconditions)>`
render_pre(preconditions, function) ==
    [function EXCEPT !.inputs = Append(@, FnArg("_", PhantomData(preconditions)))]

\* The preconditions the closure of render_function pushes, in order.
RECURSIVE PushedPreconditions(_)
PushedPreconditions(events) ==
    IF events = <<>> THEN <<>>
    ELSE (IF Head(events).ok /\ Head(events).parsed.form = "precondition"
          THEN <<Head(events).parsed.list[1]>> ELSE <<>>)
         \o PushedPreconditions(Tail(events))

\* The preconditions render_function collects: that of the attribute that
\* started the visitor, then those of the function's own `pre` attributes.
CollectedPreconditions(function, first, nightly) ==
    (IF first # None /\ first[1].form = "precondition" THEN <<first[1].list[1]>> ELSE <<>>)
    \o PushedPreconditions(visit_matching_attrs_parsed(function.attrs, "pre", nightly).events)

\* render_function without the test for an empty list: render_pre always
render_function_always(function, first, nightly) ==
    LET visited == visit_matching_attrs_parsed(function.attrs, "pre", nightly)
        preconditions == CollectedPreconditions(function, first, nightly)
        stripped == [function EXCEPT !.attrs = visited.attributes]
    IN  [item  |-> render_pre(preconditions, stripped),
         diags |-> ParseErrors(visited.events)]

\* PreAttrVisitor::render_function
render_function(function, first, nightly) ==
    LET visited == visit_matching_attrs_parsed(function.attrs, "pre", nightly)
        preconditions == CollectedPreconditions(function, first, nightly)
        stripped == [function EXCEPT !.attrs = visited.attributes]
    IN  [item  |-> IF preconditions # <<>>
                   THEN render_pre(preconditions, stripped)
                   ELSE stripped,
         diags |-> ParseErrors(visited.events)]

----------------------------------------------------------------------------
(* The call rewriter (call_handling.rs) *)

MissingReasonMsg    == "you need to specify a reason why this precondition holds"
UnfinishedReasonMsg == "you should specify a more meaningful reason here"
DuplicateDefMsg     == "duplicate def(...) statement"
DuplicateAttrMsg    == "duplicate assert_pre attribute found"

\* unfinished_reason without the case conversion: an exact comparison
unfinished_reason_exact(reason) ==
    IF reason \in {HINT_REASON, Str_todo, Str_question} THEN Some(reason) ELSE None

\* unfinished_reason: the reason itself if, in ASCII lower case, it is the
\* hint, "todo" or "?"
unfinished_reason(reason) ==
    IF make_ascii_lowercase(reason) \in {HINT_REASON, Str_todo, Str_question}
    THEN Some(reason)
    ELSE None

\* A PreconditionHoldsStatement as parsed from one attribute: WithReason
\* when `reason` is Some, WithoutReason when it is None.
HoldsStatement(precondition, span) ==
    [kind |-> precondition.kind, payload |-> precondition.payload,
     reason |-> precondition.reason, span |-> span]

\* impl From<PreconditionHoldsStatement> for Precondition
into_Precondition(holds_statement) ==
    Precondition(holds_statement.kind, holds_statement.payload, None)

\* reason_diagnostic without the WithoutReason arm: a missing reason passes
reason_diagnostic_lenient(statement) ==
    IF statement.reason # None /\ unfinished_reason(statement.reason[1]) # None
    THEN <<Diagnostic("warning", UnfinishedReasonMsg, statement.span, None)>>
    ELSE <<>>

\* the diagnostic check_reasons emits for one statement, if any
reason_diagnostic(statement) ==
    IF statement.reason # None
    THEN IF unfinished_reason(statement.reason[1]) # None
         THEN <<Diagnostic("warning", UnfinishedReasonMsg, statement.span, None)>>
         ELSE <<>>
    ELSE <<Diagnostic("error", MissingReasonMsg, statement.span, Some(statement.span))>>

RECURSIVE check_reasons_loop(_, _)
check_reasons_loop(preconditions, i) ==
    IF i > Len(preconditions) THEN <<>>
    ELSE reason_diagnostic(preconditions[i]) \o check_reasons_loop(preconditions, i + 1)

\* check_reasons that gives up at the first statement without a reason
RECURSIVE check_reasons_stop_loop(_, _)
check_reasons_stop_loop(preconditions, i) ==
    IF i > Len(preconditions) THEN <<>>
    ELSE IF preconditions[i].reason = None THEN reason_diagnostic(preconditions[i])
    ELSE reason_diagnostic(preconditions[i]) \o check_reasons_stop_loop(preconditions, i + 1)

check_reasons_stop_at_error(preconditions) ==
    [diags |-> check_reasons_stop_loop(preconditions, 1),
     preconditions |-> [i \in 1..Len(preconditions) |-> into_Precondition(preconditions[i])]]

\* check_reasons: one pass that emits the diagnostics, then the statements
\* converted into preconditions
check_reasons(preconditions) ==
    [diags |-> check_reasons_loop(preconditions, 1),
     preconditions |-> [i \in 1..Len(preconditions) |-> into_Precondition(preconditions[i])]]

\* A call expression.
ExprCall(attrs, func, args) ==
    [node |-> "Call", attrs |-> attrs, func |-> func, args |-> args]

\* #[allow(dead_code)] if true { output } else { original_call }
ExprIf(then_branch, else_branch) ==
    [node |-> "If", attrs |-> <<"allow(dead_code)">>, cond |-> "true",
     then_branch |-> then_branch, else_branch |-> else_branch]

\* render_assert_precondition that puts the marker first
render_assert_precondition_front(preconditions, call) ==
    [call EXCEPT !.args = <<PhantomData(preconditions)>> \o @]

\* render_assert_precondition: push
\* `::core::marker::PhantomData::<(#preconditions)>`
render_assert_precondition(preconditions, call) ==
    [call EXCEPT !.args = Append(@, PhantomData(preconditions))]

\* DefStatement::update_call: the call is redirected to the target the
\* statement names.
update_call(def_statement, call) == [call EXCEPT !.func = def_statement.target]

\* The closure process_call hands to visit_matching_attrs_parsed, with a
\* forwarding statement that never replaces the one already found.
process_call_closure_keep_first(acc, e) ==
    IF e.parsed.form = "def"
    THEN [acc EXCEPT
            !.def_statement = IF acc.def_statement # None THEN @
                              ELSE Some([target |-> e.parsed.target, span |-> e.span]),
            !.diags = IF acc.def_statement # None
                      THEN Append(@, Diagnostic("error", DuplicateDefMsg, e.span,
                                                Some(acc.def_statement[1].span)))
                      ELSE @]
    ELSE [acc EXCEPT
            !.preconditions = Append(@, HoldsStatement(e.parsed.list[1], e.span))]

\* The closure process_call hands to visit_matching_attrs_parsed: a
\* forwarding statement replaces the one found before and, if there was
\* one, is reported with a help note at the one it replaced; a precondition
\* is pushed.
process_call_closure(acc, e) ==
    IF e.parsed.form = "def"
    THEN [acc EXCEPT
            !.def_statement = Some([target |-> e.parsed.target, span |-> e.span]),
            !.diags = IF acc.def_statement # None
                      THEN Append(@, Diagnostic("error", DuplicateDefMsg, e.span,
                                                Some(acc.def_statement[1].span)))
                      ELSE @]
    ELSE [acc EXCEPT
            !.preconditions = Append(@, HoldsStatement(e.parsed.list[1], e.span))]

\* The closure of process_call over the visited attributes: the state of
\* `def_statement`, `preconditions` and the diagnostics emitted so far.
RECURSIVE process_call_visit(_, _)
process_call_visit(events, acc) ==
    IF events = <<>> THEN acc
    ELSE LET e == Head(events)
             next ==
                IF ~e.ok
                THEN [acc EXCEPT !.diags = Append(@, ParseError(e.span))]
                ELSE process_call_closure(acc, e)
         IN  process_call_visit(Tail(events), next)

\* render_call with the rewritten call in both branches
render_call_no_original(preconditions, def_statement, attr_span, call) ==
    LET checked == check_reasons(preconditions)
        redirected == IF def_statement # None
                      THEN update_call(def_statement[1], call)
                      ELSE call
        output == render_assert_precondition(checked.preconditions, redirected)
    IN  [expr  |-> IF def_statement # None THEN ExprIf(output, redirected) ELSE output,
         diags |-> checked.diags]

\* render_call
render_call(preconditions, def_statement, attr_span, call) ==
    LET checked == check_reasons(preconditions)
        redirected == IF def_statement # None
                      THEN update_call(def_statement[1], call)
                      ELSE call
        output == render_assert_precondition(checked.preconditions, redirected)
    IN  [expr  |-> IF def_statement # None THEN ExprIf(output, call) ELSE output,
         diags |-> checked.diags]

\* process_call: None when the call carries no assert_pre attribute
process_call(call, nightly) ==
    LET visited == visit_matching_attrs_parsed(call.attrs, "assert_pre", nightly)
        acc == process_call_visit(visited.events,
                                  [def_statement |-> None, preconditions |-> <<>>,
                                   diags |-> <<>>])
        stripped == [call EXCEPT !.attrs = visited.attributes]
    IN  IF visited.span_of_all # None
        THEN LET r == render_call(acc.preconditions, acc.def_statement,
                                  visited.span_of_all[1], stripped)
             IN  [expr |-> Some(r.expr), diags |-> acc.diags \o r.diags]
        ELSE [expr |-> None, diags |-> acc.diags]

\* PreAttrVisitor::visit_expr_mut: the expression is swapped for the one
\* process_call returns, and left as it is when it returns None
visit_expr_mut(expr, nightly) ==
    LET r == process_call(expr, nightly)
    IN  [expr |-> IF r.expr # None THEN r.expr[1] ELSE expr, diags |-> r.diags]

----------------------------------------------------------------------------
(* The list-style call visitor (assert_pre.rs) *)

\* impl Parse for AssertPreAttr (assert_pre.rs): a parenthesized
\* precondition list
parse_AssertPreAttr_list(tokens) == [ok |-> tokens.form = "list", parsed |-> tokens]

\* has_unfinished_reason
has_unfinished_reason(precondition) ==
    IF precondition.reason # None
    THEN make_ascii_lowercase(precondition.reason[1]) \in {HINT_REASON, Str_todo, Str_question}
    ELSE FALSE

\* the diagnostic process_attribute emits for one precondition, if any
process_attribute_diagnostic(precondition, span) ==
    IF precondition.reason = None
    THEN <<Diagnostic("error", MissingReasonMsg, span, Some(span))>>
    ELSE IF has_unfinished_reason(precondition)
    THEN <<Diagnostic("warning", UnfinishedReasonMsg, span, None)>>
    ELSE <<>>

RECURSIVE process_attribute_loop(_, _, _)
process_attribute_loop(preconditions, i, span) ==
    IF i > Len(preconditions) THEN <<>>
    ELSE process_attribute_diagnostic(preconditions[i], span)
         \o process_attribute_loop(preconditions, i + 1, span)

\* process_attribute: the diagnostics, and the call swapped for the
\* rendered one
process_attribute(attr, span, call) ==
    [call  |-> render_assert_precondition(attr.list, call),
     diags |-> process_attribute_loop(attr.list, 1, span)]

\* A second or later assert_pre attribute, processed like the first: its
\* list is rendered into the call as well.
on_duplicate_merge(st, attr, removed) ==
    [st EXCEPT !.call = render_assert_precondition(attr.tokens.list, removed)]

\* The `if attr_found` branch of visit_expr_call_mut: the attribute is
\* reported and, by `continue`, neither parsed nor processed.
on_duplicate(st, attr, removed) ==
    [st EXCEPT !.call = removed,
               !.diags = Append(@, Diagnostic("error", DuplicateAttrMsg, attr.span, None))]

\* The loop of AssertPreVisitor::visit_expr_call_mut; st.i counts from 0.
RECURSIVE visit_expr_call_loop(_)
visit_expr_call_loop(st) ==
    IF ~(st.i < Len(st.call.attrs)) THEN st
    ELSE IF is_ident(st.call.attrs[st.i + 1], "assert_pre")
    THEN LET attr == st.call.attrs[st.i + 1]
             removed == [st.call EXCEPT !.attrs = Vec_remove(@, st.i + 1)]
         IN  IF st.attr_found
             THEN visit_expr_call_loop(on_duplicate(st, attr, removed))
             ELSE LET res == parse_AssertPreAttr_list(attr.tokens)
                      done == process_attribute(res.parsed, attr.span, removed)
                  IN  IF res.ok
                      THEN visit_expr_call_loop(
                             [st EXCEPT !.call = done.call, !.attr_found = TRUE,
                                        !.diags = @ \o done.diags])
                      ELSE visit_expr_call_loop(
                             [st EXCEPT !.call = removed, !.attr_found = TRUE,
                                        !.diags = Append(@, ParseError(attr.span))])
    ELSE visit_expr_call_loop([st EXCEPT !.i = st.i + 1])

\* AssertPreVisitor::visit_expr_call_mut
visit_expr_call_mut(call) ==
    LET st == visit_expr_call_loop([call |-> call, i |-> 0, attr_found |-> FALSE,
                                    diags |-> <<>>])
    IN  [expr |-> st.call, diags |-> st.diags]

----------------------------------------------------------------------------
(* The mirror generator (pre_defs_for.rs) *)

\* A `use` item: `use path;`, or `use path::*;` when glob.
ItemUse(attrs, path, glob) ==
    [node |-> "Use", attrs |-> attrs, path |-> path, glob |-> glob]

\* A function signature of the mirrored module: `attrs vis fn ident(inputs) -> output;`
ForeignItemFn(attrs, vis, ident, inputs, output) ==
    [attrs |-> attrs, vis |-> vis,
     sig |-> [ident |-> ident, inputs |-> inputs, output |-> output]]

\* struct DefinitionsForModule.  A visibility is "pub", "pub(crate)",
\* "pub(super)" or "" (inherited).
DefinitionsForModule(attrs, visibility, ident, imports, functions, modules) ==
    [attrs |-> attrs, visibility |-> visibility, ident |-> ident,
     imports |-> imports, functions |-> functions, modules |-> modules]

\* helpers::crate_name(): the cached name as an identifier
helpers_crate_name == CRATE_NAME

allow_unused_imports == Attribute(<<"allow">>, Tokens("unused_imports", <<>>, ""))
inline_always == Attribute(<<"inline">>, Tokens("always", <<>>, ""))

\* the path is extended by the name of every module, the outermost included
extend_path_always(path, ident, visibility) == Append(path, ident)

\* render_inner: "Update the path only in recursive calls."
extend_path(path, ident, visibility) ==
    IF visibility # None THEN Append(path, ident) ELSE path

\* the visibility written on the outermost module is handed down as it is
nested_visibility_as_written(local_vis) == local_vis

\* render_inner, outermost call: the visibility used in recursive calls
\* and for the functions
nested_visibility(local_vis) ==
    IF local_vis = "pub" THEN "pub" ELSE "pub(crate)"

\* only the wildcard import of the path is injected
injected_imports_path_only(path, name) ==
    << ItemUse(<<allow_unused_imports>>, path, TRUE) >>

\* render_inner: `#[allow(unused_imports)] use #path::*;
\*                #[allow(unused_imports)] use #crate_name::pre;`
injected_imports(path, name) ==
    << ItemUse(<<allow_unused_imports>>, path, TRUE),
       ItemUse(<<allow_unused_imports>>, <<name, "pre">>, FALSE) >>

\* render_function (pre_defs_for.rs): the forwarder of one signature
pre_defs_for_render_function(path, function, visibility) ==
    [node  |-> "Fn",
     attrs |-> Append(function.attrs, inline_always),
     vis   |-> visibility,
     sig   |-> function.sig,
     block |-> << ExprCall(<<>>, Append(path, function.sig.ident),
                           [i \in 1..Len(function.sig.inputs) |->
                               function.sig.inputs[i].pat]) >>]

\* DefinitionsForModule::render_inner; visibility is None in the outermost
\* call
RECURSIVE render_inner(_, _, _, _)
render_inner(self, path, visibility, name) ==
    LET path2 == extend_path(path, self.ident, visibility)
        vis   == IF visibility # None THEN visibility[1]
                 ELSE nested_visibility(self.visibility)
    IN  [node  |-> "Mod",
         attrs |-> self.attrs,
         vis   |-> IF visibility # None THEN visibility[1] ELSE self.visibility,
         ident |-> self.ident,
         content |->
            injected_imports(path2, name)
            \o self.imports
            \o [i \in 1..Len(self.functions) |->
                   pre_defs_for_render_function(path2, self.functions[i], vis)]
            \o [i \in 1..Len(self.modules) |->
                   render_inner(self.modules[i], path2, Some(vis), name)]]

\* DefinitionsForModule::render
render(self, attr_path) == render_inner(self, attr_path, None, helpers_crate_name)

----------------------------------------------------------------------------
(* Resolution of the name of the main crate *)

\* proc_macro_crate::crate_name("pre"): the name under which the manifest
\* of the build imports the crate, or an error
proc_macro_crate_crate_name ==
    IF env.importable THEN [ok |-> TRUE, name |-> crate_name]
    ELSE [ok |-> FALSE, name |-> ""]

\* The initializer of the lazy static CRATE_NAME: the name found, "pre"
\* when the crate being built is `pre` itself, and abort_call_site!
\* otherwise.
CRATE_NAME_initializer ==
    IF proc_macro_crate_crate_name.ok THEN proc_macro_crate_crate_name
    ELSE IF env.pkg_name = "pre" THEN [ok |-> TRUE, name |-> "pre"]
    ELSE [ok |-> FALSE, name |-> ""]

\* One read of the name: what the reader got (None when the run ended
\* instead) and whether the read resolved the name.
Use(by, value, resolved) == [by |-> by, value |-> value, resolved |-> resolved]

\* `*CRATE_NAME`: the first dereference runs the initializer and stores its
\* value, every later one returns the stored value.
deref_CRATE_NAME(by) ==
    IF cache # None
    THEN /\ uses' = Append(uses, Use(by, cache, FALSE))
         /\ UNCHANGED <<cache, run>>
    ELSE IF CRATE_NAME_initializer.ok
    THEN /\ cache' = Some(CRATE_NAME_initializer.name)
         /\ uses' = Append(uses, Use(by, Some(CRATE_NAME_initializer.name), TRUE))
         /\ UNCHANGED run
    ELSE /\ run' = "aborted"
         /\ uses' = Append(uses, Use(by, None, TRUE))
         /\ UNCHANGED cache

\* get_crate_name(): crate_name("pre").expect("crate `pre` must be imported")
get_crate_name_call(by) ==
    IF proc_macro_crate_crate_name.ok
    THEN /\ uses' = Append(uses, Use(by, Some(proc_macro_crate_crate_name.name), TRUE))
         /\ UNCHANGED <<cache, run>>
    ELSE /\ run' = "panicked"
         /\ uses' = Append(uses, Use(by, None, TRUE))
         /\ UNCHANGED cache

----------------------------------------------------------------------------
(* Input universes *)

Kinds == { Precondition("Custom", Str_a, None),
           Precondition("Custom", Str_ab, None),
           Precondition("ValidPtr", Str_a, None) }

SeqsUpTo(S, n) == UNION { [1..k -> S] : k \in 0..n }

EncoderLists == SeqsUpTo(Kinds, MaxPre)

\* the position of each attribute of a node is its span
WithSpans(attrs) == [i \in 1..Len(attrs) |-> [attrs[i] EXCEPT !.span = Span(i, i)]]

T_empty     == Tokens("empty", <<>>, "")
T_malformed == Tokens("malformed", <<>>, "")
T_other     == Tokens("other", <<>>, "")
T_pre(kind, payload, reason) ==
    Tokens("precondition", <<Precondition(kind, payload, reason)>>, "")

\* the attributes a function may carry
FnAttrs ==
    { Attribute(<<"pre">>, T_empty),
      Attribute(<<"pre">>, T_pre("Custom", Str_a, None)),
      Attribute(<<"pre">>, T_pre("ValidPtr", Str_a, None)),
      Attribute(<<"pre">>, T_malformed),
      Attribute(<<"pre", "pre">>, T_pre("Custom", Str_ab, None)),
      Attribute(<<"inline">>, T_other) }

\* the attribute the macro was invoked with, as PreAttrVisitor::new parsed it
FirstAttrs == { None, Some(T_empty), Some(T_pre("Custom", Str_b, None)) }

ArgNames == <<"x1", "x2", "x3", "x4", "x5">>

\* the first n parameters of a function: `x1: T, x2: T, ...`
Params(n) == [i \in 1..n |-> FnArg(ArgNames[i], Plain("T"))]

\* the first n arguments of a call: `x1, x2, ...`
Args(n) == [i \in 1..n |-> Plain(ArgNames[i])]

T_def(target) == Tokens("def", <<>>, target)
T_list(list)  == Tokens("list", list, "")

\* the attributes a call may carry where process_call rewrites it
CallAttrs ==
    { Attribute(<<"assert_pre">>, T_pre("Custom", Str_a, None)),
      Attribute(<<"assert_pre">>, T_pre("Custom", Str_a, Some(Str_TODO))),
      Attribute(<<"assert_pre">>, T_pre("Custom", Str_a, Some(Str_checked))),
      Attribute(<<"assert_pre">>, T_pre("ValidPtr", Str_a, Some(Str_checked))),
      Attribute(<<"assert_pre">>, T_def("g")),
      Attribute(<<"assert_pre">>, T_def("h")),
      Attribute(<<"assert_pre">>, T_malformed),
      Attribute(<<"inline">>, T_other) }

\* the justifications tried on a call with one precondition
Reasons ==
    { Str_todo, Str_TODO, Str_ToDo, Str_todo_q, Str_question, Str_empty,
      Str_checked, HINT_REASON, Str_Why_Does_This_Hold, helpers_HINT_REASON }

ReasonAttrs ==
    { Attribute(<<"assert_pre">>, T_pre("Custom", Str_b, Some(r))) : r \in Reasons }

\* the attribute lists of the calls process_call is given
CallAttrLists == SeqsUpTo(CallAttrs, MaxAttrs) \cup { <<a>> : a \in ReasonAttrs }

\* the precondition lists written in one list-style attribute
P_checked == Precondition("Custom", Str_a, Some(Str_checked))
P_missing == Precondition("Custom", Str_ab, None)
P_todo    == Precondition("ValidPtr", Str_a, Some(Str_TODO))

ListedLists ==
    { <<>>, <<P_checked>>, <<P_missing>>, <<P_checked, P_todo>>,
      <<P_todo, P_checked>>, <<P_missing, P_todo, P_missing>> }

\* the attributes a call may carry where AssertPreVisitor rewrites it
ListAttrs ==
    { Attribute(<<"assert_pre">>, T_list(l)) : l \in ListedLists }
    \cup { Attribute(<<"assert_pre">>, T_malformed), Attribute(<<"inline">>, T_other) }

ReasonListAttrs ==
    { Attribute(<<"assert_pre">>, T_list(<<Precondition("Custom", Str_b, Some(r))>>)) :
        r \in Reasons }

ListAttrLists == SeqsUpTo(ListAttrs, MaxAttrs) \cup { <<a>> : a \in ReasonListAttrs }

ItemFn(attrs, n) ==
    [attrs |-> WithSpans(attrs), ident |-> "f", inputs |-> Params(n),
     output |-> "R", block |-> "body"]

NoItem == [attrs |-> <<>>, ident |-> "", inputs |-> <<>>, output |-> "", block |-> ""]
NoExpr == ExprCall(<<>>, "", <<>>)

\* the contents of a mirrored module, without its submodules
Use_ptr  == ItemUse(<<>>, <<"core", "ptr">>, FALSE)
Use_glob == ItemUse(<<>>, <<"core", "mem">>, TRUE)

Fn_two  == ForeignItemFn(<<>>, "", "read", Params(2), "R")
Fn_none == ForeignItemFn(<<>>, "pub", "init", Params(0), "R")
Fn_pre  == ForeignItemFn(<<Attribute(<<"pre">>, T_pre("ValidPtr", Str_a, None))>>,
                         "pub", "write", Params(1), "R")

ModuleShapes ==
    { DefinitionsForModule(<<>>, "pub", "a", <<>>, <<Fn_two>>, <<>>),
      DefinitionsForModule(<<>>, "", "b", <<Use_ptr>>, <<Fn_none>>, <<>>),
      DefinitionsForModule(<<>>, "pub(crate)", "c", <<Use_ptr, Use_glob>>,
                           <<Fn_two, Fn_none>>, <<>>),
      DefinitionsForModule(<<Attribute(<<"inline">>, T_other)>>, "pub(super)", "d",
                           <<Use_glob, Use_ptr>>, <<>>, <<>>),
      DefinitionsForModule(<<>>, "pub", "e", <<Use_glob>>, <<Fn_pre>>, <<>>) }

LeafModule == DefinitionsForModule(<<>>, "pub", "leaf", <<>>, <<Fn_none>>, <<>>)

\* the modules nested at most d deep: no submodule, one, or one and a sibling
RECURSIVE Modules(_)
Modules(d) ==
    IF d = 0 THEN ModuleShapes
    ELSE LET Subs == {<<>>} \cup { <<m>> : m \in Modules(d - 1) }
                            \cup { <<m, LeafModule>> : m \in Modules(d - 1) }
         IN  { [shape EXCEPT !.modules = subs] : shape \in ModuleShapes, subs \in Subs }

\* the paths a pre_defs_for attribute names
TargetPaths == { <<"ext">>, <<"ext", "sys">> }

NoMod == DefinitionsForModule(<<>>, "", "", <<>>, <<>>, <<>>)
NoModOut == [node |-> "Mod", attrs |-> <<>>, vis |-> "", ident |-> "", content |-> <<>>]

----------------------------------------------------------------------------
(* The state machine *)

Init ==
    /\ crate_name \in {"pre", "pre_renamed"}
    /\ op = "idle"
    /\ item_in = NoItem
    /\ first_attr = None
    /\ item_out = NoItem
    /\ expr_in = NoExpr
    /\ expr_out = NoExpr
    /\ diags = <<>>
    /\ lists = << <<>>, <<>> >>
    /\ markers = << <<>>, <<>> >>
    /\ mod_in = NoMod
    /\ mod_path = <<>>
    /\ mod_out = NoModOut
    /\ env = [importable |-> TRUE, pkg_name |-> "user_crate"]
    /\ cache = Some(crate_name)
    /\ run = "running"
    /\ uses = <<>>

\* no module is mirrored in this step
NoMirror == mod_in' = NoMod /\ mod_path' = <<>> /\ mod_out' = NoModOut

\* A function declared with one precondition list and a call of it that
\* asserts another: the marker type of the parameter render_pre appends and
\* that of the argument render_assert_precondition appends.
Encode ==
    /\ op = "idle"
    /\ \E declared \in EncoderLists, asserted \in EncoderLists :
        /\ op' = "encode"
        /\ lists' = <<declared, asserted>>
        /\ markers' = << Last(render_pre(declared, ItemFn(<<>>, 0)).inputs).ty,
                         Last(render_assert_precondition(asserted,
                                                         ExprCall(<<>>, "f", <<>>)).args) >>
        /\ item_in' = NoItem /\ first_attr' = None /\ item_out' = NoItem
        /\ expr_in' = NoExpr /\ expr_out' = NoExpr /\ diags' = <<>>
        /\ UNCHANGED crate_name
        /\ NoMirror
        /\ UNCHANGED name_vars

\* The traversal moves on to the next node: what was built for the last one
\* is dropped.
NextNode ==
    /\ op # "idle"
    /\ op' = "idle"
    /\ item_in' = NoItem /\ first_attr' = None /\ item_out' = NoItem
    /\ expr_in' = NoExpr /\ expr_out' = NoExpr /\ diags' = <<>>
    /\ lists' = << <<>>, <<>> >>
    /\ markers' = << <<>>, <<>> >>
    /\ UNCHANGED crate_name
    /\ NoMirror
    /\ UNCHANGED name_vars

\* PreAttrVisitor::visit_item_mut / visit_file_mut on a function: the
\* function is replaced by what render_function emits.
RenderFunction ==
    /\ op = "idle"
    /\ \E attrs \in SeqsUpTo(FnAttrs, MaxAttrs), n \in 0..MaxArgs,
          first \in FirstAttrs, nightly \in BOOLEAN :
        LET function == ItemFn(attrs, n)
            out == render_function(function, first, nightly)
        IN  /\ op' = "render_function"
            /\ item_in' = function
            /\ first_attr' = first
            /\ item_out' = out.item
            /\ diags' = out.diags
            /\ expr_in' = NoExpr /\ expr_out' = NoExpr
            /\ lists' = << <<>>, <<>> >>
            /\ markers' = << <<>>, <<>> >>
            /\ UNCHANGED crate_name
            /\ NoMirror
            /\ UNCHANGED name_vars

\* PreAttrVisitor::visit_expr_mut on a call expression
VisitExpr ==
    /\ op = "idle"
    /\ \E attrs \in CallAttrLists, n \in 0..MaxArgs, nightly \in BOOLEAN :
        LET call == ExprCall(WithSpans(attrs), "f", Args(n))
            out == visit_expr_mut(call, nightly)
        IN  /\ op' = "visit_expr"
            /\ expr_in' = call
            /\ expr_out' = out.expr
            /\ diags' = out.diags
            /\ item_in' = NoItem /\ first_attr' = None /\ item_out' = NoItem
            /\ lists' = << <<>>, <<>> >>
            /\ markers' = << <<>>, <<>> >>
            /\ UNCHANGED crate_name
            /\ NoMirror
            /\ UNCHANGED name_vars

\* AssertPreVisitor::visit_expr_call_mut on a call expression
VisitExprCall ==
    /\ op = "idle"
    /\ \E attrs \in ListAttrLists, n \in 0..MaxArgs :
        LET call == ExprCall(WithSpans(attrs), "f", Args(n))
            out == visit_expr_call_mut(call)
        IN  /\ op' = "visit_expr_call"
            /\ expr_in' = call
            /\ expr_out' = out.expr
            /\ diags' = out.diags
            /\ item_in' = NoItem /\ first_attr' = None /\ item_out' = NoItem
            /\ lists' = << <<>>, <<>> >>
            /\ markers' = << <<>>, <<>> >>
            /\ UNCHANGED crate_name
            /\ NoMirror
            /\ UNCHANGED name_vars

\* DefinitionsForModule::render on a module annotated with pre_defs_for
RenderMirror ==
    /\ op = "idle"
    /\ \E module \in Modules(MaxDepth), path \in TargetPaths :
        /\ op' = "render_mirror"
        /\ mod_in' = module
        /\ mod_path' = path
        /\ mod_out' = render(module, path)
        /\ item_in' = NoItem /\ first_attr' = None /\ item_out' = NoItem
        /\ expr_in' = NoExpr /\ expr_out' = NoExpr /\ diags' = <<>>
        /\ lists' = << <<>>, <<>> >>
        /\ markers' = << <<>>, <<>> >>
        /\ UNCHANGED crate_name
        /\ UNCHANGED name_vars

Next == Encode \/ RenderFunction \/ VisitExpr \/ VisitExprCall \/ RenderMirror \/ NextNode

Spec == Init /\ [][Next]_vars

----------------------------------------------------------------------------
(* The reads of the name of the main crate in one run *)

\* A run starts with the lazy static uninitialized, in a build that
\* imports the main crate under some name or not at all.
InitRun ==
    /\ crate_name \in {"pre", "pre_renamed"}
    /\ env \in [importable : BOOLEAN, pkg_name : {"pre", "user_crate"}]
    /\ cache = None
    /\ run = "running"
    /\ uses = <<>>
    /\ op = "idle"
    /\ item_in = NoItem /\ first_attr = None /\ item_out = NoItem
    /\ expr_in = NoExpr /\ expr_out = NoExpr /\ diags = <<>>
    /\ lists = << <<>>, <<>> >>
    /\ markers = << <<>>, <<>> >>
    /\ mod_in = NoMod /\ mod_path = <<>> /\ mod_out = NoModOut

\* helpers::is_attr on an attribute whose path has two segments and is not
\* the bare name asked for: the first segment is compared with *CRATE_NAME
IsAttr ==
    /\ run = "running"
    /\ Len(uses) < MaxUses
    /\ deref_CRATE_NAME("is_attr")
    /\ UNCHANGED <<crate_name, env, node_vars>>

\* DefinitionsForModule::render: `let crate_name = crate_name();`
MirrorCrateName ==
    /\ run = "running"
    /\ Len(uses) < MaxUses
    /\ deref_CRATE_NAME("render")
    /\ UNCHANGED <<crate_name, env, node_vars>>

\* impl ToTokens for Precondition, for PreconditionHolds:
\* `let pre = get_crate_name();`, once for every precondition rendered
PreconditionToTokens ==
    /\ run = "running"
    /\ Len(uses) < MaxUses
    /\ get_crate_name_call("to_tokens")
    /\ UNCHANGED <<crate_name, env, node_vars>>

NextUse == IsAttr \/ MirrorCrateName \/ PreconditionToTokens

SpecCrateName == InitRun /\ [][NextUse]_vars

----------------------------------------------------------------------------
(* Helpers of the properties *)

Range(seq) == {seq[i] : i \in DOMAIN seq}

\* how often precondition (kind, payload) occurs in a list
Occurrences(list, k) ==
    Cardinality({i \in DOMAIN list : list[i].kind = k.kind /\ list[i].payload = k.payload})

\* the set of (kind, payload) of a list
KindSet(list) == {<<list[i].kind, list[i].payload>> : i \in DOMAIN list}

\* one list is a reordering of the other
IsPermutation(l1, l2) ==
    /\ Len(l1) = Len(l2)
    /\ \A k \in Range(l1) \cup Range(l2) : Occurrences(l1, k) = Occurrences(l2, k)

\* the call that is executed: the taken branch of `if true`, or the call itself
LiveCall(e) == IF e.node = "If" THEN e.then_branch ELSE e

\* the positions of the attributes of a node named `name` by a one-segment path
Blocks(attrs, name) == {i \in DOMAIN attrs : attrs[i].path = <<name>>}

\* the diagnostics with message `msg` anchored at attribute position i
DiagsAt(i, msg) == {j \in DOMAIN diags : diags[j].msg = msg /\ diags[j].span = Span(i, i)}

DiagsWith(msg) == {j \in DOMAIN diags : diags[j].msg = msg}

----------------------------------------------------------------------------
(* Properties of the encoder *)

\* C1: order independence. Whenever the list asserted at the call is a
\* reordering of the list declared on the function, the two rendered
\* fingerprints are identical.
C1_OrderIndependence ==
    (op = "encode" /\ IsPermutation(lists[1], lists[2])) => markers[1] = markers[2]

\* three distinct preconditions, listed in two different orders
C1_Witness ==
    /\ op = "encode"
    /\ Len(lists[1]) = 3
    /\ Cardinality(KindSet(lists[1])) = 3
    /\ lists[1] # lists[2]
    /\ IsPermutation(lists[1], lists[2])
    /\ markers[1] = markers[2]

WithReason(attrs, r) ==
    [i \in DOMAIN attrs |->
        [attrs[i] EXCEPT !.tokens.list =
            [j \in DOMAIN @ |-> IF @[j].reason = None THEN @[j]
                                ELSE [@[j] EXCEPT !.reason = Some(r)]]]]

\* C3: the marker of a call equals the marker of a declaration only if both
\* carry the same set of (kind, payload): sets that differ render different
\* fingerprints, a Custom and a ValidPtr condition with the same text among
\* them, and the justification stated at a call never changes its marker.
C3_MarkerEqualOnlyIfSameSet ==
    /\ (op = "encode" /\ markers[1] = markers[2]) => KindSet(lists[1]) = KindSet(lists[2])
    /\ op = "visit_expr" =>
          \A r \in {Str_checked, Str_todo} :
              LiveCall(visit_expr_mut([expr_in EXCEPT !.attrs = WithReason(@, r)], TRUE).expr).args
                  = LiveCall(expr_out).args
    /\ op = "visit_expr_call" =>
          \A r \in {Str_checked, Str_todo} :
              visit_expr_call_mut([expr_in EXCEPT !.attrs = WithReason(@, r)]).expr.args
                  = expr_out.args

\* a Custom condition and a ValidPtr condition with the same text
C3_Witness ==
    /\ op = "encode"
    /\ lists[1] = <<Precondition("Custom", Str_a, None)>>
    /\ lists[2] = <<Precondition("ValidPtr", Str_a, None)>>
    /\ markers[1] # markers[2]

----------------------------------------------------------------------------
(* Properties of the validator *)

\* the positions of the assert_pre attributes of the call that state one
\* precondition each
Statements(attrs) ==
    {i \in Blocks(attrs, "assert_pre") : attrs[i].tokens.form = "precondition"}

\* the first assert_pre attribute of a call, where there is one
FirstBlock(attrs) ==
    CHOOSE i \in Blocks(attrs, "assert_pre") : \A j \in Blocks(attrs, "assert_pre") : i <= j

\* the preconditions without a reason in a list
Reasonless(list) == {j \in DOMAIN list : list[j].reason = None}

\* the function carries a precondition of its own or of the starting attribute
DeclaresPrecondition ==
    CollectedPreconditions(item_in, first_attr, TRUE) # <<>>

UpperByte(c) == IF c >= 97 /\ c <= 122 THEN c - 32 ELSE c

\* equality of two strings up to the case of their ASCII letters
EqIgnoreCase(a, b) ==
    Len(a) = Len(b) /\ \A i \in DOMAIN a : UpperByte(a[i]) = UpperByte(b[i])

\* the reason is a placeholder: the hint of the help note, "todo" or "?"
IsPlaceholder(r) == \E h \in {HINT_REASON, Str_todo, Str_question} : EqIgnoreCase(r, h)

Placeholders(list) ==
    {j \in DOMAIN list : list[j].reason # None /\ IsPlaceholder(list[j].reason[1])}

\* C5: a justification that equals the hint string, "todo" or "?" up to case
\* triggers exactly one placeholder warning; any other justification
\* triggers no diagnostic; an absent one never triggers the warning.
C5_PlaceholderDetection ==
    /\ op = "visit_expr" =>
          \A i \in Statements(expr_in.attrs) :
              LET r == expr_in.attrs[i].tokens.list[1].reason
              IN  /\ Cardinality(DiagsAt(i, UnfinishedReasonMsg))
                        = IF r # None /\ IsPlaceholder(r[1]) THEN 1 ELSE 0
                  /\ (r # None /\ ~IsPlaceholder(r[1])) =>
                        {j \in DOMAIN diags : diags[j].span = Span(i, i)} = {}
                  /\ \A j \in DiagsAt(i, UnfinishedReasonMsg) : diags[j].level = "warning"
    /\ op = "visit_expr_call" =>
          Cardinality(DiagsWith(UnfinishedReasonMsg))
             = IF Blocks(expr_in.attrs, "assert_pre") # {}
                  /\ expr_in.attrs[FirstBlock(expr_in.attrs)].tokens.form = "list"
               THEN Cardinality(Placeholders(expr_in.attrs[FirstBlock(expr_in.attrs)].tokens.list))
               ELSE 0

\* the hint string of the help note, capitalized, as the only justification
C5_Witness ==
    /\ op = "visit_expr"
    /\ Len(expr_in.attrs) = 1
    /\ expr_in.attrs[1].tokens.form = "precondition"
    /\ expr_in.attrs[1].tokens.list[1].reason = Some(Str_Why_Does_This_Hold)
    /\ Len(diags) = 1
    /\ diags[1].level = "warning"
    /\ diags[1].msg = UnfinishedReasonMsg

\* the preconditions stated on a call, in source order, without reasons
StatedPreconditions(attrs) ==
    LET RECURSIVE from(_)
        from(i) ==
            IF i > Len(attrs) THEN <<>>
            ELSE (IF i \in Statements(attrs)
                  THEN <<Precondition(attrs[i].tokens.list[1].kind,
                                      attrs[i].tokens.list[1].payload, None)>>
                  ELSE <<>>) \o from(i + 1)
    IN  from(1)

ReasonMsgs == {MissingReasonMsg, UnfinishedReasonMsg}

\* the reason diagnostics anchored at attribute position i, in order
ReasonDiagsAt(i) ==
    SelectSeq(diags, LAMBDA d : d.msg \in ReasonMsgs /\ d.span = Span(i, i))

\* C6: each call-site precondition yields at most one of the two reason
\* diagnostics, the one it yields when it is the only precondition of the
\* call; and a call with an assert_pre attribute whose diagnostics are all
\* warnings is rewritten with a marker that encodes all of its preconditions.
C6_IndependentDiagnostics ==
    op = "visit_expr" =>
        /\ \A i \in Statements(expr_in.attrs) :
              /\ Len(ReasonDiagsAt(i)) <= 1
              /\ ReasonDiagsAt(i)
                    = check_reasons(<<HoldsStatement(expr_in.attrs[i].tokens.list[1],
                                                     Span(i, i))>>).diags
        /\ (Blocks(expr_in.attrs, "assert_pre") # {}
            /\ \A j \in DOMAIN diags : diags[j].level = "warning") =>
              /\ Len(LiveCall(expr_out).args) = Len(expr_in.args) + 1
              /\ Last(LiveCall(expr_out).args)
                    = PhantomData(StatedPreconditions(expr_in.attrs))

\* a precondition without a reason followed by one with a placeholder: both
\* are reported
C6_Witness ==
    /\ op = "visit_expr"
    /\ Len(expr_in.attrs) = 2
    /\ Statements(expr_in.attrs) = {1, 2}
    /\ expr_in.attrs[1].tokens.list[1].reason = None
    /\ expr_in.attrs[2].tokens.list[1].reason = Some(Str_TODO)
    /\ Len(diags) = 2
    /\ diags[1].level = "error"
    /\ diags[2].level = "warning"

\* the positions of the `pre` attributes of a function, as is_attr finds them
PreBlocks(attrs) == {i \in DOMAIN attrs : is_attr("pre", attrs[i])}

\* the list written in the first assert_pre attribute of a call
FirstBlockList(attrs) ==
    IF attrs[FirstBlock(attrs)].tokens.form \in {"list", "precondition"}
    THEN attrs[FirstBlock(attrs)].tokens.list
    ELSE <<>>

\* C7 as stated: on every node with more than one annotation block of the
\* same recognized kind, each block after the first emits one
\* duplicate-annotation error and only the preconditions of the first block
\* enter the fingerprint.
C7_DuplicatesAlwaysRejected ==
    /\ (op \in {"visit_expr", "visit_expr_call"}
        /\ Cardinality(Blocks(expr_in.attrs, "assert_pre")) >= 2) =>
          /\ \A i \in Blocks(expr_in.attrs, "assert_pre") :
                Cardinality(DiagsAt(i, DuplicateAttrMsg))
                   = IF i = FirstBlock(expr_in.attrs) THEN 0 ELSE 1
          /\ LiveCall(expr_out).args # expr_in.args =>
                Last(LiveCall(expr_out).args) = PhantomData(FirstBlockList(expr_in.attrs))
    /\ (op = "render_function" /\ Cardinality(PreBlocks(item_in.attrs)) >= 2) =>
          Cardinality(DiagsWith(DuplicateAttrMsg)) = Cardinality(PreBlocks(item_in.attrs)) - 1

\* C7 (amended): AssertPreVisitor processes the first assert_pre attribute of
\* a call, and every later one emits one duplicate-annotation error and is
\* dropped, so that only the list of the first enters the fingerprint;
\* process_call and render_function emit no duplicate-annotation error and
\* collect the preconditions of all the annotation blocks of the node into
\* one fingerprint.
C7_DuplicatesRejectedByAssertPreVisitor ==
    /\ (op = "visit_expr_call" /\ Blocks(expr_in.attrs, "assert_pre") # {}) =>
          /\ \A i \in Blocks(expr_in.attrs, "assert_pre") :
                Cardinality(DiagsAt(i, DuplicateAttrMsg))
                   = IF i = FirstBlock(expr_in.attrs) THEN 0 ELSE 1
          /\ expr_out.args
                = expr_in.args
                  \o (IF expr_in.attrs[FirstBlock(expr_in.attrs)].tokens.form = "list"
                      THEN <<PhantomData(FirstBlockList(expr_in.attrs))>>
                      ELSE <<>>)
    /\ op = "visit_expr" =>
          /\ DiagsWith(DuplicateAttrMsg) = {}
          /\ Blocks(expr_in.attrs, "assert_pre") # {} =>
                Last(LiveCall(expr_out).args)
                   = PhantomData(StatedPreconditions(expr_in.attrs))
    /\ op = "render_function" =>
          /\ DiagsWith(DuplicateAttrMsg) = {}
          /\ DeclaresPrecondition =>
                Last(item_out.inputs).ty
                   = PhantomData(CollectedPreconditions(item_in, first_attr, TRUE))

\* three list-style blocks on one call: two errors, the first list encoded
C7_Witness ==
    /\ op = "visit_expr_call"
    /\ Blocks(expr_in.attrs, "assert_pre") = {1, 2, 3}
    /\ \A i \in {1, 2, 3} :
          expr_in.attrs[i].tokens.form = "list" /\ expr_in.attrs[i].tokens.list # <<>>
    /\ expr_in.attrs[2].tokens.list # expr_in.attrs[1].tokens.list
    /\ Cardinality(DiagsWith(DuplicateAttrMsg)) = 2
    /\ Len(expr_out.args) = Len(expr_in.args) + 1

----------------------------------------------------------------------------
(* Properties of the rewriters *)

\* C8: a function whose collected precondition list is empty is emitted
\* with its parameters, return type and body unchanged and no marker
\* parameter.
C8_EmptySetErasure ==
    (op = "render_function" /\ ~DeclaresPrecondition) =>
        /\ item_out.inputs = item_in.inputs
        /\ item_out.output = item_in.output
        /\ item_out.block = item_in.block
        /\ item_out.ident = item_in.ident

\* a function with parameters that carries only an empty `pre()` marker
C8_Witness ==
    /\ op = "render_function"
    /\ ~DeclaresPrecondition
    /\ first_attr = Some(T_empty)
    /\ \E i \in DOMAIN item_in.attrs :
          item_in.attrs[i].path = <<"pre">> /\ item_in.attrs[i].tokens = T_empty
    /\ Len(item_in.inputs) = 2
    /\ item_out.inputs = item_in.inputs

\* C9: for a function with a non-empty precondition list the emitted
\* declaration has exactly one more parameter, the last, of the encoded
\* marker type; the original parameters in their order, the return type and
\* the body are unchanged.
C9_DefinitionRewriting ==
    (op = "render_function" /\ DeclaresPrecondition) =>
        /\ Len(item_out.inputs) = Len(item_in.inputs) + 1
        /\ SubSeq(item_out.inputs, 1, Len(item_in.inputs)) = item_in.inputs
        /\ Last(item_out.inputs).ty.path = "::core::marker::PhantomData"
        /\ Last(item_out.inputs).ty.generic
              = << PreconditionList_to_tokens(
                       CollectedPreconditions(item_in, first_attr, TRUE)) >>
        /\ item_out.output = item_in.output
        /\ item_out.block = item_in.block
        /\ item_out.ident = item_in.ident

\* a function with two parameters and two preconditions
C9_Witness ==
    /\ op = "render_function"
    /\ Len(item_in.inputs) = 2
    /\ Len(CollectedPreconditions(item_in, first_attr, TRUE)) = 2
    /\ Len(item_out.inputs) = 3
    /\ item_out.inputs[1] = item_in.inputs[1]
    /\ item_out.inputs[2] = item_in.inputs[2]

\* the forwarding statement in force when the call is rendered: the last
\* one that parsed
LastDef(attrs) ==
    LET D == {i \in Blocks(attrs, "assert_pre") : attrs[i].tokens.form = "def"}
        i == CHOOSE i \in D : \A j \in D : j <= i
    IN  IF D = {} THEN None ELSE Some([target |-> attrs[i].tokens.target, span |-> Span(i, i)])

\* C10: a call with an assert_pre attribute is rewritten to a call with
\* exactly one more argument, the last, of the encoded marker type, after
\* the arguments of the call in their order (for a call without a
\* forwarding statement: the original arguments of the original callee); a
\* call without an assert_pre attribute is left untouched.
C10_CallRewriting ==
    op = "visit_expr" =>
        IF Blocks(expr_in.attrs, "assert_pre") = {}
        THEN expr_out = expr_in
        ELSE LET live == LiveCall(expr_out)
                 def  == LastDef(expr_in.attrs)
                 base == IF def = None THEN expr_in ELSE update_call(def[1], expr_in)
             IN  /\ live.node = "Call"
                 /\ Len(live.args) = Len(expr_in.args) + 1
                 /\ SubSeq(live.args, 1, Len(expr_in.args)) = base.args
                 /\ Last(live.args) = PhantomData(StatedPreconditions(expr_in.attrs))
                 /\ live.func = base.func
                 /\ def = None => (expr_out = live /\ live.func = expr_in.func
                                   /\ SubSeq(live.args, 1, Len(expr_in.args)) = expr_in.args)

\* a call with two arguments and two asserted preconditions, not forwarded
C10_Witness ==
    /\ op = "visit_expr"
    /\ Len(expr_in.args) = 2
    /\ Cardinality(Statements(expr_in.attrs)) = 2
    /\ LastDef(expr_in.attrs) = None
    /\ expr_out.node = "Call"
    /\ Len(expr_out.args) = 3
    /\ expr_out.args[1] = expr_in.args[1]
    /\ expr_out.args[2] = expr_in.args[2]


----------------------------------------------------------------------------
(* Properties of forwarding *)

\* the attributes of a call that are not assert_pre attributes, in order
OtherAttrs(attrs) == SelectSeq(attrs, LAMBDA a : ~is_ident(a, "assert_pre"))

\* the positions of the forwarding statements of a call
Defs(attrs) == {i \in Blocks(attrs, "assert_pre") : attrs[i].tokens.form = "def"}

\* C11: a call with a forwarding statement is replaced by
\* `#[allow(dead_code)] if true { rewritten } else { original }`: the taken
\* branch is the call redirected to the target of the statement with the
\* marker as last argument, the other branch is the call with its original
\* callee and arguments and no marker; a call with assert_pre attributes
\* and no forwarding statement is replaced by the rewritten call alone.
C11_ForwardingDeadBranch ==
    (op = "visit_expr" /\ Blocks(expr_in.attrs, "assert_pre") # {}) =>
        LET def == LastDef(expr_in.attrs)
            marker == PhantomData(StatedPreconditions(expr_in.attrs))
        IN  IF def # None
            THEN /\ expr_out.node = "If"
                 /\ expr_out.cond = "true"
                 /\ expr_out.then_branch
                       = ExprCall(OtherAttrs(expr_in.attrs), def[1].target,
                                  Append(expr_in.args, marker))
                 /\ expr_out.else_branch
                       = ExprCall(OtherAttrs(expr_in.attrs), expr_in.func, expr_in.args)
            ELSE expr_out
                    = ExprCall(OtherAttrs(expr_in.attrs), expr_in.func,
                               Append(expr_in.args, marker))

\* a call of f with two arguments, a precondition and a forwarding
\* statement to g
C11_Witness ==
    /\ op = "visit_expr"
    /\ Len(expr_in.args) = 2
    /\ Cardinality(Defs(expr_in.attrs)) = 1
    /\ Cardinality(Statements(expr_in.attrs)) = 1
    /\ expr_out.node = "If"
    /\ expr_out.then_branch.func = "g"
    /\ Len(expr_out.then_branch.args) = 3
    /\ expr_out.else_branch.func = "f"
    /\ expr_out.else_branch.args = expr_in.args

\* the forwarding statement before position i
PreviousDef(attrs, i) == CHOOSE j \in Defs(attrs) : j < i /\ \A k \in Defs(attrs) : k < i => k <= j

\* C12: every forwarding statement of a call after the first emits exactly
\* one duplicate-forwarding-statement error, at its own position and with
\* the help note at the statement it replaces; the first emits none, so n
\* statements yield n-1 errors.
C12_DuplicateForwardingStatements ==
    op = "visit_expr" =>
        /\ \A i \in Defs(expr_in.attrs) :
              IF \E j \in Defs(expr_in.attrs) : j < i
              THEN /\ Cardinality(DiagsAt(i, DuplicateDefMsg)) = 1
                   /\ \A d \in DiagsAt(i, DuplicateDefMsg) :
                         /\ diags[d].level = "error"
                         /\ diags[d].help = Some(Span(PreviousDef(expr_in.attrs, i),
                                                      PreviousDef(expr_in.attrs, i)))
              ELSE DiagsAt(i, DuplicateDefMsg) = {}
        /\ Cardinality(DiagsWith(DuplicateDefMsg))
              = IF Defs(expr_in.attrs) = {} THEN 0 ELSE Cardinality(Defs(expr_in.attrs)) - 1

\* three forwarding statements on one call: two errors, the second of which
\* points back at the second statement
C12_Witness ==
    /\ op = "visit_expr"
    /\ Defs(expr_in.attrs) = {1, 2, 3}
    /\ Cardinality(DiagsWith(DuplicateDefMsg)) = 2
    /\ \E d \in DiagsAt(3, DuplicateDefMsg) : diags[d].help = Some(Span(2, 2))

----------------------------------------------------------------------------
(* Properties of the attribute traversal *)

ParseErrorMsg == "malformed annotation"

\* the attribute is one the handler `which` takes and its content does not
\* parse
IsMalformed(which, a) ==
    IF which = "assert_pre_list"
    THEN is_ident(a, "assert_pre") /\ ~parse_AssertPreAttr_list(a.tokens).ok
    ELSE AttrFilter(which, a) /\ ~parse2(which, a.tokens).ok

Malformed(which, attrs) == {i \in DOMAIN attrs : IsMalformed(which, attrs[i])}

\* the node without its malformed annotations; the others keep their
\* positions in the source
WithoutMalformed(which, node) ==
    [node EXCEPT !.attrs = SelectSeq(@, LAMBDA a : ~IsMalformed(which, a))]

\* the diagnostics other than malformed-annotation errors, in order
OtherDiags == SelectSeq(diags, LAMBDA d : d.msg # ParseErrorMsg)

\* every malformed annotation is reported once and the diagnostics of the
\* other annotations are those of the node without the malformed ones
Recovers(which, attrs, clean_diags) ==
    /\ \A i \in Malformed(which, attrs) : Cardinality(DiagsAt(i, ParseErrorMsg)) = 1
    /\ Cardinality(DiagsWith(ParseErrorMsg)) = Cardinality(Malformed(which, attrs))
    /\ OtherDiags = clean_diags

RecoversInProcessCall ==
    op = "visit_expr" =>
        Recovers("assert_pre", expr_in.attrs,
                 visit_expr_mut(WithoutMalformed("assert_pre", expr_in), TRUE).diags)

RecoversInRenderFunction ==
    op = "render_function" =>
        Recovers("pre", item_in.attrs,
                 render_function(WithoutMalformed("pre", item_in), first_attr, TRUE).diags)

RecoversInAssertPreVisitor ==
    op = "visit_expr_call" =>
        Recovers("assert_pre_list", expr_in.attrs,
                 visit_expr_call_mut(WithoutMalformed("assert_pre_list", expr_in)).diags)

\* C13: a malformed annotation on a node emits one malformed-annotation
\* error, and every other annotation of the node gets the diagnostics it
\* gets when the malformed annotation is absent; in process_call, in
\* render_function and in AssertPreVisitor::visit_expr_call_mut.
C13_ParseErrorRecovery ==
    /\ RecoversInProcessCall
    /\ RecoversInRenderFunction
    /\ RecoversInAssertPreVisitor

\* AssertPreVisitor on a malformed assert_pre attribute followed by one
\* that states a precondition without a reason: the second is reported as
\* a duplicate and its missing reason is not
C13_Witness ==
    /\ op = "visit_expr_call"
    /\ Len(expr_in.attrs) = 2
    /\ expr_in.attrs[1] = [Attribute(<<"assert_pre">>, T_malformed) EXCEPT !.span = Span(1, 1)]
    /\ expr_in.attrs[2].tokens = T_list(<<P_missing>>)
    /\ DiagsAt(2, DuplicateAttrMsg) # {}
    /\ DiagsAt(2, MissingReasonMsg) = {}
    /\ expr_out.args = expr_in.args

----------------------------------------------------------------------------
(* Properties of the mirror generator *)

\* the items of one kind in an emitted module, in order
ItemsOf(module, node) == SelectSeq(module.content, LAMBDA item : item.node = node)

\* nesting depth of a module of signatures below itself
RECURSIVE DepthOf(_)
DepthOf(module) ==
    IF module.modules = <<>> THEN 0
    ELSE 1 + (LET S == {DepthOf(module.modules[i]) : i \in DOMAIN module.modules}
              IN  CHOOSE d \in S : \A e \in S : e <= d)

\* every forwarder and every module below `module`, at every depth, has
\* visibility v
RECURSIVE DescendantsHaveVisibility(_, _)
DescendantsHaveVisibility(module, v) ==
    /\ \A i \in DOMAIN module.content :
          module.content[i].node \in {"Fn", "Mod"} => module.content[i].vis = v
    /\ \A i \in DOMAIN module.content :
          module.content[i].node = "Mod" =>
             DescendantsHaveVisibility(module.content[i], v)

\* C14: the emitted root module has the visibility written on the source
\* module; when that is `pub`, every nested module and every forwarder at
\* every depth is `pub`, and otherwise every one of them is `pub(crate)`,
\* whatever is written on the nested source modules and signatures.
C14_MirrorVisibility ==
    op = "render_mirror" =>
        /\ mod_out.vis = mod_in.visibility
        /\ DescendantsHaveVisibility(
              mod_out, IF mod_in.visibility = "pub" THEN "pub" ELSE "pub(crate)")

\* a private root module with a `pub` module nested two deep that holds a
\* `pub` signature: the emitted forwarder is pub(crate)
C14_Witness ==
    /\ op = "render_mirror"
    /\ mod_in.visibility = ""
    /\ DepthOf(mod_in) = 2
    /\ mod_in.modules[1].modules[1].visibility = "pub"
    /\ mod_in.modules[1].modules[1].functions = <<Fn_pre>>
    /\ ItemsOf(ItemsOf(ItemsOf(mod_out, "Mod")[1], "Mod")[1], "Fn")[1].vis = "pub(crate)"
    /\ ItemsOf(ItemsOf(mod_out, "Mod")[1], "Mod")[1].vis = "pub(crate)"

\* the emitted module `out` has the nesting of `src`, and the forwarder of
\* every signature calls `path::ident` with the argument names in order,
\* where path grows by the name of each nested module
RECURSIVE ForwardsTo(_, _, _)
ForwardsTo(src, out, path) ==
    LET fns  == ItemsOf(out, "Fn")
        mods == ItemsOf(out, "Mod")
    IN  /\ out.ident = src.ident
        /\ Len(fns) = Len(src.functions)
        /\ \A i \in DOMAIN fns :
              /\ fns[i].sig = src.functions[i].sig
              /\ Len(fns[i].block) = 1
              /\ fns[i].block[1].node = "Call"
              /\ fns[i].block[1].func = Append(path, src.functions[i].sig.ident)
              /\ fns[i].block[1].args
                    = [k \in 1..Len(src.functions[i].sig.inputs) |->
                          src.functions[i].sig.inputs[k].pat]
        /\ Len(mods) = Len(src.modules)
        /\ \A i \in DOMAIN mods :
              ForwardsTo(src.modules[i], mods[i], Append(path, src.modules[i].ident))

\* C15: the forwarder of a signature in a module at depth d is a single
\* call of the target path, extended by the names of the nested modules
\* from depth 1 to d (not by the name of the root module) and by the name
\* of the function, with the argument names of the signature in order; the
\* emitted module tree has the nesting of the source.
C15_MirrorForwardingPath ==
    op = "render_mirror" => ForwardsTo(mod_in, mod_out, mod_path)

\* a signature with two arguments two modules deep below the root `c`,
\* mirrored for the path ext::sys
C15_Witness ==
    /\ op = "render_mirror"
    /\ mod_path = <<"ext", "sys">>
    /\ mod_in.ident = "c"
    /\ DepthOf(mod_in) = 2
    /\ mod_in.modules[1].ident = "b"
    /\ mod_in.modules[1].modules[1].ident = "a"
    /\ Len(mod_in.modules[1].modules) = 2
    /\ LET f == ItemsOf(ItemsOf(ItemsOf(mod_out, "Mod")[1], "Mod")[1], "Fn")[1]
           g == ItemsOf(ItemsOf(ItemsOf(mod_out, "Mod")[1], "Mod")[2], "Fn")[1]
       IN  /\ f.block[1].func = <<"ext", "sys", "b", "a", "read">>
           /\ f.block[1].args = <<"x1", "x2">>
           /\ g.block[1].func = <<"ext", "sys", "b", "leaf", "init">>

\* the imports of the source module are among the `use` items of the
\* emitted module, in source order
RECURSIVE IsSubsequence(_, _)
IsSubsequence(sub, seq) ==
    IF sub = <<>> THEN TRUE
    ELSE IF seq = <<>> THEN FALSE
    ELSE IF Head(sub) = Head(seq) THEN IsSubsequence(Tail(sub), Tail(seq))
    ELSE IsSubsequence(sub, Tail(seq))

\* at every depth: the source imports are copied in order, and there is a
\* wildcard import of `target` and an import from the main crate
RECURSIVE ImportsTarget(_, _, _)
ImportsTarget(src, out, target) ==
    LET use_items == ItemsOf(out, "Use")
        mods == ItemsOf(out, "Mod")
    IN  /\ IsSubsequence(src.imports, use_items)
        /\ \E i \in DOMAIN use_items : use_items[i].path = target /\ use_items[i].glob
        /\ \E i \in DOMAIN use_items : use_items[i].path[1] = crate_name
        /\ Len(use_items) = Len(src.imports) + 2
        /\ \A i \in DOMAIN mods : ImportsTarget(src.modules[i], mods[i], target)

\* C16 as stated: every emitted module, at every depth, holds the imports
\* of its source module in source order, plus a wildcard import of the
\* target path and an import of the interface of the main crate.
C16_ImportsOfTargetPath ==
    op = "render_mirror" => ImportsTarget(mod_in, mod_out, mod_path)

\* at every depth: the `use` items are `use path::*`, `use crate_name::pre`
\* and then the source imports, where path grows by the name of each
\* nested module
RECURSIVE ImportsOwnPath(_, _, _)
ImportsOwnPath(src, out, path) ==
    LET mods == ItemsOf(out, "Mod")
    IN  /\ ItemsOf(out, "Use")
              = << ItemUse(<<allow_unused_imports>>, path, TRUE),
                   ItemUse(<<allow_unused_imports>>, <<crate_name, "pre">>, FALSE) >>
                \o src.imports
        /\ SubSeq(out.content, 1, Len(src.imports) + 2) = ItemsOf(out, "Use")
        /\ \A i \in DOMAIN mods :
              ImportsOwnPath(src.modules[i], mods[i], Append(path, src.modules[i].ident))

\* C16 (amended): every emitted module, at every depth, starts with a
\* wildcard import of the path its forwarders call into (the target path
\* extended by the names of the nested modules down to it), an import of
\* the item `pre` of the main crate, and then every import of its source
\* module, verbatim and in source order; it holds no other import.
C16_MirrorImports ==
    op = "render_mirror" => ImportsOwnPath(mod_in, mod_out, mod_path)

\* a nested module with two imports: its wildcard import names the nested
\* path
C16_Witness ==
    /\ op = "render_mirror"
    /\ mod_path = <<"ext">>
    /\ Len(mod_in.modules) = 1
    /\ mod_in.modules[1].ident = "d"
    /\ mod_in.modules[1].imports = <<Use_glob, Use_ptr>>
    /\ LET use_items == ItemsOf(ItemsOf(mod_out, "Mod")[1], "Use")
       IN  /\ Len(use_items) = 4
           /\ use_items[1].path = <<"ext", "d">>
           /\ use_items[1].glob
           /\ use_items[3] = Use_glob
           /\ use_items[4] = Use_ptr

----------------------------------------------------------------------------
(* Properties of the resolution of the name *)

\* the reads that resolved the name
Resolutions == {i \in DOMAIN uses : uses[i].resolved}

\* C17: the name of the main crate is resolved at most once in a run: the
\* first read resolves it, every later read in any component returns the
\* value of the first without resolving again, and a read whose resolution
\* fails ends the run at once.
C17_ResolvedAtMostOnce ==
    /\ Cardinality(Resolutions) <= 1
    /\ \A i \in DOMAIN uses :
          i > 1 => (~uses[i].resolved /\ uses[i].value = uses[1].value)
    /\ \A i \in DOMAIN uses :
          uses[i].value = None => (run # "running" /\ i = Len(uses))

\* `pre` built for itself: is_attr resolves the name to "pre" and caches
\* it, then the rendering of a precondition resolves again and panics
C17_Witness ==
    /\ ~env.importable
    /\ env.pkg_name = "pre"
    /\ Len(uses) = 2
    /\ uses[1] = Use("is_attr", Some("pre"), TRUE)
    /\ cache = Some("pre")
    /\ uses[2] = Use("to_tokens", None, TRUE)
    /\ run = "panicked"

----------------------------------------------------------------------------
(* Properties of visit_matching_attrs_parsed *)

\* the attributes the filter of `which` takes, and the others, in order
Matching(which, attrs) == SelectSeq(attrs, LAMBDA a : AttrFilter(which, a))
NonMatching(which, attrs) == SelectSeq(attrs, LAMBDA a : ~AttrFilter(which, a))

\* the malformed-annotation errors, in order
ParseDiags == SelectSeq(diags, LAMBDA d : d.msg = ParseErrorMsg)

\* visit_matching_attrs_parsed on `attrs`: the loop has ended after one
\* iteration for every attribute, no matching attribute is left, the
\* others are left as they were, and the matching ones were each parsed
\* once, in source order, and handed on or reported
RemovesMatching(which, attrs) ==
    LET v == visit_matching_attrs_parsed(attrs, which, TRUE)
        m == Matching(which, attrs)
    IN  /\ v.i = Len(v.attributes)
        /\ Len(v.events) + v.i = Len(attrs)
        /\ \A k \in DOMAIN v.attributes : ~AttrFilter(which, v.attributes[k])
        /\ v.attributes = NonMatching(which, attrs)
        /\ Len(v.events) = Len(m)
        /\ \A k \in DOMAIN m :
              /\ v.events[k].span = m[k].span
              /\ v.events[k].parsed = m[k].tokens
              /\ v.events[k].ok = parse2(which, m[k].tokens).ok
        /\ ParseDiags
              = [k \in 1..Len(SelectSeq(m, LAMBDA a : ~parse2(which, a.tokens).ok)) |->
                    ParseError(SelectSeq(m, LAMBDA a : ~parse2(which, a.tokens).ok)[k].span)]

\* C18: after visit_matching_attrs_parsed no attribute that matches the
\* filter is left on the node, parsed or not; the attributes that do not
\* match are all still there, once each and in their order; every matching
\* attribute was handed to the visitor or reported as a parse error, once
\* and in source order; and the loop terminates.  For the assert_pre
\* attributes of a call and for the pre attributes of a function.
C18_AnnotationRemoval ==
    /\ op = "visit_expr" =>
          /\ RemovesMatching("assert_pre", expr_in.attrs)
          /\ LiveCall(expr_out).attrs = NonMatching("assert_pre", expr_in.attrs)
          /\ Len(StatedPreconditions(expr_in.attrs)) + Cardinality(Defs(expr_in.attrs))
                + Len(ParseDiags) = Len(Matching("assert_pre", expr_in.attrs))
    /\ op = "render_function" =>
          /\ RemovesMatching("pre", item_in.attrs)
          /\ item_out.attrs = NonMatching("pre", item_in.attrs)
    /\ op = "visit_expr_call" =>
          expr_out.attrs = NonMatching("assert_pre", expr_in.attrs)

\* a function with a foreign attribute between a pre attribute that parses
\* and one that does not: only the foreign one is left
C18_Witness ==
    /\ op = "render_function"
    /\ Len(item_in.attrs) = 3
    /\ item_in.attrs[1].tokens.form = "precondition"
    /\ item_in.attrs[2].path = <<"inline">>
    /\ item_in.attrs[3].tokens = T_malformed
    /\ item_out.attrs = <<item_in.attrs[2]>>
    /\ Len(ParseDiags) = 1

====
